---- MODULE Spec2Model ----
(***************************************************************************)
(* Model of dui::State (src/State.hpp): the identity / focus state machine *)
(* of an immediate-mode UI.  Strings are sequences of one-character        *)
(* strings, points and rectangles are records of integers.                 *)
(*                                                                         *)
(* Environment: events are fed between frames ("You shouldn't send events  *)
(* nor render during this", State::isInFrame), groups are entered and      *)
(* exited inside a frame in LIFO order, and a frame is ended after every   *)
(* group opened in it was closed.  The ticks counter is not read by any     *)
(* operation modelled here and is left out.                                *)
(*                                                                         *)
(* Specifications:                                                         *)
(*   Spec         State: events, frames, checkMouse, groups                *)
(*   SpecHover    the same without text, with the outermost exits recorded *)
(*   SpecButton   button / toggleButton emitted once per frame (button.hpp)*)
(*   SpecContext  State::Context objects, lockFrame, render                *)
(*   SpecGroups   Context::pushGroup / popGroup with any id, nested deeper *)
(*   SpecList     DisplayList: insert, clip, render, clear                 *)
(*   SpecObjects  Group objects: construction, end(), moves, destruction   *)
(* Each one leaves the variables of the others at their initial values.    *)
(***************************************************************************)
EXTENDS Integers, Sequences, FiniteSets, TLC

\* ------------------------------------------------------------------------
\* Bounds and input sets
\* ------------------------------------------------------------------------

\* Deepest nesting of open groups explored.
MaxDepth == 1

\* SDL_TEXTINPUTEVENT_TEXT_SIZE
TextSize == 32

groupNameSeparator == "/"

Btn == <<"b", "t", "n">>
Ok == <<"o", "k">>

\* Element ids passed to checkMouse / checkText / isActive.
Ids == {Btn, Ok}

\* Group ids passed to beginGroup / endGroup (the empty id is allowed).
GroupIds == {<<>>, <<"p">>}

Pt(x, y) == [x |-> x, y |-> y]
Rc(x, y, w, h) == [x |-> x, y |-> y, w |-> w, h |-> h]

POut == Pt(5, 5)
PIn == Pt(15, 15)
PBoth == Pt(25, 15)

Points == {POut, PIn, PBoth}

\* PIn lies in R only, PBoth in R and in RRight, POut in neither.
R == Rc(10, 10, 20, 20)
RRight == Rc(20, 10, 20, 20)

Rects == {R, RRight}

Buttons == {"LEFT", "RIGHT"}

Keys == {"BACKSPACE", "RETURN"}

\* Text fragments of SDL_TEXTINPUT events (bytes before the terminating zero).
TextFrags == {<<65>>, <<195, 169>>}

\* Longest text an event carries before its terminating zero.
MaxText == TextSize - 1

\* Text fragments with multi-byte UTF-8 sequences, a stray continuation
\* byte, an early terminating zero, no text at all and the longest text.
RichFrags ==
  { <<>>, <<65>>, <<195, 169>>, <<65, 195, 169, 66>>, <<240, 159, 152, 128>>,
    <<128, 65>>, <<65, 0, 66>>, <<226, 130, 172, 0, 195>>,
    [i \in 1..MaxText |-> 65], [i \in 1..MaxText |-> 195] }

\* tBuffer is not initialised by the constructor: any content.
InitBuffers == {<<>>, <<65>>}

\* Display list: longest list, rects, alpha values and contents of the
\* commands (content 0 is a filled rect, any other a character).
MaxItems == 3
RFar == Rc(50, 50, 5, 5)
ListRects == {R, RRight, RFar}
Alphas == {0, 255}
Contents == {0, 65}

\* Group objects alive at once, groups entered in a run, and the exits
\* counted for one enter.
MaxObjects == 3
MaxGroups == 2
MaxExits == 2
GroupSlots == 1..MaxObjects
NoGroup == [enter |-> 0, ended |-> TRUE]

\* Nesting depth and ids of the groups pushed through a Context.
GroupDepth == 3

\* Nesting depth of the groups that hold a widget.
NestDepth == 2

\* Ids of the groups that hold a widget.
WidgetGroups == {<<"p">>, <<"q">>}
NestIds == {<<>>, <<"p">>, <<"q">>}

\* Context objects that may be alive at once, and frames begun in a run.
MaxContexts == 3
MaxFrames == 2
Slots == 1..MaxContexts

\* ------------------------------------------------------------------------
\* State
\* ------------------------------------------------------------------------
VARIABLES
  inFrame, mPos, mLeftPressed, eGrabbed, mHovering, mGrabbing, mReleasing,
  eActive, tBuffer, tChanged, tAction, group, gGrabbed, gActive,
  open,      \* ids of the groups entered and not yet exited (callers' stack)
  last,      \* the last operation performed, its arguments and its result
  tFresh,    \* history: an event set tChanged since the last endFrame
  released,  \* history: id whose grab the last endFrame cleared
  aRect,     \* history: rect of the latest query of the active element
  grabber,   \* history: id that took the grab in the current frame
  dragged,   \* history: the current grab has been reported as DRAG
  scen,      \* history: progress along the press / drag / release scenario
  hovered,   \* history: an outermost group closed in the open frame held the pointer
  click,     \* history: progress and outcome of one click on the button
  queried,   \* history: the open frame queried the grabbed element, button up
  tap,       \* history: progress of a press released before any frame began
  ctx,       \* State::Context objects: the value of each one's state pointer
  begins,    \* history: number of calls of beginFrame
  ends,      \* history: number of calls of endFrame
  failed,    \* the assertion or invalid access that stopped the program
  saved,     \* history: the prefix found by the enter of each open group
  proper,    \* history: every exit so far closed the innermost open group
  items,     \* DisplayList::items
  painted,   \* what the latest render of the unchanged list painted, in order
  groups,    \* Group objects: the enter each one stands for and its ended flag
  entered,   \* history: number of groups entered by Group constructors
  exits      \* history: number of parent.unlock calls made for each enter

stateVars == <<inFrame, mPos, mLeftPressed, eGrabbed, mHovering, mGrabbing,
               mReleasing, eActive, tBuffer, tChanged, tAction, group,
               gGrabbed, gActive>>

vars == <<inFrame, mPos, mLeftPressed, eGrabbed, mHovering, mGrabbing,
          mReleasing, eActive, tBuffer, tChanged, tAction, group, gGrabbed,
          gActive, open, last, tFresh, released, aRect, grabber, dragged,
          scen, hovered, click, queried, tap, ctx, begins, ends, failed,
          saved, proper,
          items, painted, groups, entered, exits>>

\* Variables of the objects around State; State's own operations leave
\* them alone.
ctxVars == <<ctx, begins, ends, failed>>

\* History of the group calls made through Context::pushGroup / popGroup.
grpVars == <<saved, proper>>

\* The display list and its output.
dlVars == <<items, painted>>

\* The Group objects of Group.hpp.
objVars == <<groups, entered, exits>>

extVars == <<ctxVars, grpVars, dlVars, objVars>>

\* History of the State operations.
histVars == <<open, last, tFresh, released, aRect, grabber, dragged, scen,
              hovered, click, queried, tap>>

\* ------------------------------------------------------------------------
\* Pure helpers
\* ------------------------------------------------------------------------

\* SDL_PointInRect
PointInRect(p, r) ==
  /\ p.x >= r.x
  /\ p.x < r.x + r.w
  /\ p.y >= r.y
  /\ p.y < r.y + r.h

Min(a, b) == IF a < b THEN a ELSE b

\* std::string_view::substr(pos, len), pos <= size
Substr(s, pos, len) == SubSeq(s, pos + 1, Min(pos + len, Len(s)))

\* s.substr(pos)
SubstrFrom(s, pos) == SubSeq(s, pos + 1, Len(s))

\* s[i], zero based
At(s, i) == s[i + 1]

\* group + separator + id, as built by checkMouse
Qualified(g, id) == g \o <<groupNameSeparator>> \o id

isSameGroupId(g, qualifiedId, id) ==
  LET groupSize == Len(g) IN
  IF Len(qualifiedId) < groupSize + 1
  THEN FALSE
  ELSE IF \/ Substr(qualifiedId, 0, groupSize) # g
          \/ At(qualifiedId, groupSize) # groupNameSeparator
          \/ SubstrFrom(qualifiedId, groupSize + 1) # id
       THEN FALSE
       ELSE TRUE

\* The copy loop of the SDL_TEXTINPUT branch: i walks the fragment, out is
\* tBuffer[0..j).  Reading past the fragment reads its terminating zero.
\* Variant: every byte up to the terminating zero is copied as it is.
RECURSIVE decodeTextRaw(_, _, _)
decodeTextRaw(text, i, out) ==
  IF i >= TextSize \/ i >= Len(text) \/ At(text, i) = 0
  THEN out
  ELSE decodeTextRaw(text, i + 1, Append(out, At(text, i)))

RECURSIVE decodeText(_, _, _)
decodeText(text, i, out) ==
  IF i >= TextSize
  THEN out
  ELSE LET c == IF i < Len(text) THEN At(text, i) ELSE 0 IN
       IF c = 0
       THEN out
       ELSE IF (c \div 64) % 4 = 2
            THEN decodeText(text, i + 1, out)
            ELSE IF c \div 128 # 0
                 THEN decodeText(text, i + 1, Append(out, 15))
                 ELSE decodeText(text, i + 1, Append(out, c))

NoArg == [none |-> TRUE]

Op(op, arg, res) == [op |-> op, arg |-> arg, res |-> res]

\* ------------------------------------------------------------------------
\* Initial state
\* ------------------------------------------------------------------------
\* One click on the button "btn" with rect R, followed from the press:
\* phase 0 before the press, 1 while the button is held, 2 after the
\* release, 3 once the frame after the release has ended, -1 when the run
\* is no such click.  seen: the button was emitted while held; stray: the
\* pointer was outside R when the button was emitted after the release;
\* trues: true returns since the press; value: the toggled boolean.
ClickOff ==
  [phase |-> -1, seen |-> FALSE, stray |-> FALSE, trues |-> 0, value |-> FALSE]

ClickArmed == [ClickOff EXCEPT !.phase = 0]

StateInit ==
  /\ inFrame = FALSE
  /\ mPos \in Points
  /\ mLeftPressed = FALSE
  /\ eGrabbed = <<>>
  /\ mHovering = FALSE
  /\ mGrabbing = FALSE
  /\ mReleasing = FALSE
  /\ eActive = <<>>
  /\ tBuffer \in InitBuffers
  /\ tChanged = FALSE
  /\ tAction = "NONE"
  /\ group = <<>>
  /\ gGrabbed = FALSE
  /\ gActive = FALSE
  /\ open = <<>>
  /\ last = Op("init", NoArg, "NONE")
  /\ tFresh = FALSE
  /\ released = <<>>
  /\ aRect = R
  /\ grabber = <<>>
  /\ dragged = FALSE
  /\ scen = 0
  /\ hovered = FALSE
  /\ queried = FALSE

\* Outside the button runs no click is followed.
ClickInit == click = ClickOff

\* Presses are followed only in the runs that start with tap = TapArmed.
TapOff == "off"

TapArmed == "idle"

TapInit == tap = TapOff

\* No Context object exists yet and nothing has failed.
ContextInit ==
  /\ ctx = [s \in Slots |-> "none"]
  /\ begins = 0
  /\ ends = 0
  /\ failed = "no"

GroupInit ==
  /\ saved = <<>>
  /\ proper = TRUE

ListInit ==
  /\ items = <<>>
  /\ painted = <<>>

ObjectInit ==
  /\ groups = [s \in GroupSlots |-> NoGroup]
  /\ entered = 0
  /\ exits = [n \in 1..MaxGroups |-> 0]

Init ==
  /\ StateInit
  /\ ClickInit
  /\ TapInit
  /\ ContextInit
  /\ GroupInit
  /\ ListInit
  /\ ObjectInit


\* ------------------------------------------------------------------------
\* History bookkeeping (not program state)
\* ------------------------------------------------------------------------

\* Operation expected at each stage of the scenario: events, then a frame
\* in which "btn" with rect R is queried once at top level.
ScenMatches(k, o) ==
  CASE k = 0 -> /\ o.op = "down"
                /\ o.arg.button = "LEFT"
                /\ PointInRect(o.arg.p, R)
    [] k = 4 -> o.op = "motion" /\ o.arg.p = POut
    [] k = 8 -> o.op = "up" /\ o.arg.p = POut
    [] k \in {1, 5, 9, 12} -> o.op = "beginFrame"
    [] k \in {2, 6, 10, 13} -> /\ o.op = "checkMouse"
                               /\ o.arg.q = Qualified(<<>>, Btn)
                               /\ o.arg.r = R
    [] k \in {3, 7, 11} -> o.op = "endFrame"
    [] OTHER -> FALSE

ScenStep(o) == IF scen >= 0 /\ ScenMatches(scen, o) THEN scen + 1 ELSE -1

\* toggleButton: *value = !*value when buttonBase returned true
toggled(value, ret) == IF ret THEN ~value ELSE value

\* The click after the operation o.
ClickStep(o) ==
  IF click.phase = -1
  THEN click
  ELSE CASE o.op = "down" ->
              IF /\ click.phase = 0
                 /\ o.arg.button = "LEFT"
                 /\ PointInRect(o.arg.p, R)
                 /\ ~mLeftPressed
                 /\ eGrabbed = <<>>
              THEN [click EXCEPT !.phase = 1]
              ELSE ClickOff
         [] o.op = "up" ->
              IF click.phase = 0
              THEN click
              ELSE IF /\ click.phase = 1
                      /\ o.arg.button = "LEFT"
                      /\ PointInRect(o.arg.p, R)
                   THEN [click EXCEPT !.phase = 2]
                   ELSE ClickOff
         [] o.op = "button" ->
              [click EXCEPT
                 !.seen = IF click.phase = 1 THEN TRUE ELSE @,
                 !.stray = IF click.phase = 2 /\ ~PointInRect(mPos, R)
                           THEN TRUE ELSE @,
                 !.trues = IF click.phase >= 1 /\ o.res.ret
                           THEN Min(@ + 1, 2) ELSE @,
                 !.value = toggled(@, o.res.ret)]
         [] o.op = "endFrame" ->
              IF click.phase = 2 THEN [click EXCEPT !.phase = 3] ELSE click
         [] OTHER -> click

\* Was the grabbed element queried with the button up, after o?  o is a
\* query of the qualified id q; the frame's ends reset the answer.
QueriedStep(o) ==
  CASE o.op = "checkMouse" ->
         queried \/ (eGrabbed # <<>> /\ o.arg.q = eGrabbed /\ ~mLeftPressed)
    [] o.op = "button" ->
         queried \/ /\ eGrabbed # <<>>
                    /\ Qualified(group, o.arg.id) = eGrabbed
                    /\ ~mLeftPressed
    [] o.op \in {"beginFrame", "endFrame"} -> FALSE
    [] OTHER -> queried

\* A press of the left button and its release with no frame begun between
\* them: "pressed" after the press, "tapped" after its release, "frame"
\* during the frame that follows; "idle" otherwise.
TapStep(o) ==
  IF tap = TapOff
  THEN tap
  ELSE CASE o.op = "down" /\ o.arg.button = "LEFT" ->
              IF ~mLeftPressed THEN "pressed" ELSE tap
         [] o.op = "up" /\ o.arg.button = "LEFT" ->
              IF tap = "pressed" THEN "tapped" ELSE tap
         [] o.op = "up" /\ o.arg.button # "LEFT" ->
              IF tap = "pressed" THEN "idle" ELSE tap
         [] o.op = "beginFrame" ->
              IF tap = "tapped" THEN "frame" ELSE "idle"
         [] o.op = "endFrame" -> "idle"
         [] OTHER -> tap

\* Every action records what it did; the other history variables follow.
Record(o) ==
  /\ last' = o
  /\ scen' = ScenStep(o)
  /\ click' = ClickStep(o)
  /\ queried' = QueriedStep(o)
  /\ tap' = TapStep(o)
  /\ UNCHANGED extVars

\* ------------------------------------------------------------------------
\* State::event
\* ------------------------------------------------------------------------

\* SDL_MOUSEBUTTONDOWN: only the left button sets the pressed flag.
downPressed(button) == IF button = "LEFT" THEN TRUE ELSE mLeftPressed

EventDown(p, button) ==
  /\ ~inFrame
  /\ mPos' = p
  /\ mLeftPressed' = downPressed(button)
  /\ Record(Op("down", [p |-> p, button |-> button], "NONE"))
  /\ UNCHANGED hovered
  /\ UNCHANGED <<inFrame, eGrabbed, mHovering, mGrabbing, mReleasing,
                 eActive, tBuffer, tChanged, tAction, group, gGrabbed,
                 gActive, open, tFresh, released, aRect, grabber, dragged>>

\* Variant: the position is frozen while an element is grabbed.
motionPosFrozenOnGrab(p) == IF eGrabbed # <<>> /\ mLeftPressed THEN mPos ELSE p

\* Variant: every motion event moves the pointer.
motionPosAlways(p) == p

\* The pointer position after a SDL_MOUSEMOTION event at p.
motionPos(p) == IF ~(eGrabbed = <<>> /\ mLeftPressed) THEN p ELSE mPos

EventMotion(p) ==
  /\ ~inFrame
  /\ mPos' = motionPos(p)
  /\ Record(Op("motion", [p |-> p], "NONE"))
  /\ UNCHANGED hovered
  /\ UNCHANGED <<inFrame, mLeftPressed, eGrabbed, mHovering, mGrabbing,
                 mReleasing, eActive, tBuffer, tChanged, tAction, group,
                 gGrabbed, gActive, open, tFresh, released, aRect, grabber, dragged>>

\* Variant: a button-up event leaves the pressed flag as it was.
upPressedKept(button) == mLeftPressed

\* SDL_MOUSEBUTTONUP: the pressed flag is cleared whatever the button.
upPressed(button) == FALSE

EventUp(p, button) ==
  /\ ~inFrame
  /\ mPos' = p
  /\ mLeftPressed' = upPressed(button)
  /\ Record(Op("up", [p |-> p, button |-> button], "NONE"))
  /\ UNCHANGED hovered
  /\ UNCHANGED <<inFrame, eGrabbed, mHovering, mGrabbing, mReleasing,
                 eActive, tBuffer, tChanged, tAction, group, gGrabbed,
                 gActive, open, tFresh, released, aRect, grabber, dragged>>

\* Variant: text is taken whether or not an element is active.
textAcceptedAlways == TRUE

\* SDL_TEXTINPUT: ignored when no element is active.
textAccepted == eActive # <<>>

EventText(text) ==
  /\ ~inFrame
  /\ IF textAccepted
     THEN /\ tBuffer' = decodeText(text, 0, <<>>)
          /\ tChanged' = TRUE
          /\ tAction' = "INPUT"
          /\ tFresh' = TRUE
     ELSE UNCHANGED <<tBuffer, tChanged, tAction, tFresh>>
  /\ Record(Op("text", [text |-> text], "NONE"))
  /\ UNCHANGED hovered
  /\ UNCHANGED <<inFrame, mPos, mLeftPressed, eGrabbed, mHovering,
                 mGrabbing, mReleasing, eActive, group, gGrabbed, gActive,
                 open, released, aRect, grabber, dragged>>

\* SDL_KEYDOWN
EventKey(sym) ==
  /\ ~inFrame
  /\ IF sym = "BACKSPACE"
     THEN /\ tChanged' = TRUE
          /\ tAction' = "BACKSPACE"
          /\ tFresh' = TRUE
     ELSE UNCHANGED <<tChanged, tAction, tFresh>>
  /\ Record(Op("key", [sym |-> sym], "NONE"))
  /\ UNCHANGED hovered
  /\ UNCHANGED <<inFrame, mPos, mLeftPressed, eGrabbed, mHovering,
                 mGrabbing, mReleasing, eActive, tBuffer, group, gGrabbed,
                 gActive, open, released, aRect, grabber, dragged>>

\* ------------------------------------------------------------------------
\* Frames
\* ------------------------------------------------------------------------
frameBegun ==
  /\ inFrame = FALSE
  /\ inFrame' = TRUE
  /\ mHovering' = FALSE
  /\ Record(Op("beginFrame", NoArg, "NONE"))
  /\ UNCHANGED <<mPos, mLeftPressed, eGrabbed, mGrabbing, mReleasing,
                 eActive, tBuffer, tChanged, tAction, group, gGrabbed,
                 gActive, open, tFresh, released, aRect, grabber, dragged>>

BeginFrame ==
  /\ frameBegun
  /\ UNCHANGED hovered

\* beginFrame with the history of outermost exits kept.
HoverBeginFrame ==
  /\ frameBegun
  /\ hovered' = FALSE

\* Variant: the grab is never cleared.
\* Variant: every endFrame empties the grabbed id.
endFrameGrabbedCleared == <<>>

endFrameGrabbedKept == eGrabbed

\* The grabbed id after endFrame.
endFrameGrabbed == IF mReleasing THEN <<>> ELSE eGrabbed

\* The frame guard is released after every group opened in it was closed.
EndFrame ==
  /\ inFrame = TRUE
  /\ open = <<>>
  /\ inFrame' = FALSE
  /\ tChanged' = FALSE
  /\ mGrabbing' = FALSE
  /\ eGrabbed' = endFrameGrabbed
  /\ mReleasing' = FALSE
  /\ tFresh' = FALSE
  /\ released' = IF eGrabbed' # eGrabbed THEN eGrabbed ELSE <<>>
  /\ grabber' = <<>>
  /\ dragged' = IF eGrabbed' = <<>> THEN FALSE ELSE dragged
  /\ Record(Op("endFrame", NoArg, "NONE"))
  /\ hovered' = FALSE
  /\ UNCHANGED <<mPos, mLeftPressed, mHovering, eActive, tBuffer, tAction,
                 group, gGrabbed, gActive, open, aRect>>


\* ------------------------------------------------------------------------
\* State::checkMouse
\* ------------------------------------------------------------------------

\* Nothing grabbed, button pressed: does this query take the grab?
takesGrab(r) == PointInRect(mPos, r) /\ ~mGrabbing

\* Variant: an idle query deactivates the element queried.
idleActiveCleared(id) ==
  IF isSameGroupId(group, eActive, id) THEN <<>> ELSE eActive

\* Nothing grabbed, button not pressed: the active id after the query.
idleActive(id) == eActive

\* Variant: a press elsewhere never deactivates.
missedActiveKept(id) == eActive

\* Nothing grabbed, button pressed, no grab taken: the active id afterwards.
missedActive(id) ==
  IF isSameGroupId(group, eActive, id) THEN <<>> ELSE eActive

\* Variant: compares the element id only, not the group prefix.
ownsGrabAnyGroup(id) ==
  /\ Len(eGrabbed) >= Len(id)
  /\ SubstrFrom(eGrabbed, Len(eGrabbed) - Len(id)) = id

\* Is the query for the grabbed element?
ownsGrab(id) == isSameGroupId(group, eGrabbed, id)

\* Variant: never reports DRAG.
heldActionNoDrag(r) == IF mGrabbing THEN "GRAB" ELSE "HOLD"

\* Grabbed element, button pressed.
heldAction(r) ==
  IF mGrabbing
  THEN "GRAB"
  ELSE IF ~PointInRect(mPos, r) THEN "DRAG" ELSE "HOLD"

\* Variant: every release counts as an activation.
releaseActionAlways(r) == "ACTION"

\* Grabbed element, button not pressed.
releaseAction(r) == IF ~PointInRect(mPos, r) THEN "CANCEL" ELSE "ACTION"

\* Variant: the group prefix is left out of the stored id.
grabIdUnqualified(id) == <<groupNameSeparator>> \o id

\* The id stored as grabbed and active by a GRAB.
grabId(id) == Qualified(group, id)

\* Variant: a GRAB leaves the active id as it was.
grabActiveKept(id) == eActive

\* The id a GRAB stores as active: the same qualified id as the grabbed one.
grabActive(id) == grabId(id)

\* The fields checkMouse may write, before the call.
mouseKeep ==
  [res |-> "NONE", eGrabbed |-> eGrabbed, eActive |-> eActive,
   gGrabbed |-> gGrabbed, gActive |-> gActive, mGrabbing |-> mGrabbing,
   mReleasing |-> mReleasing]

\* Result of checkMouse(id, r) and the fields it leaves behind.
checkMouse(id, r) ==
  IF eGrabbed = <<>>
  THEN IF ~mLeftPressed
       THEN [mouseKeep EXCEPT !.eActive = idleActive(id)]
       ELSE IF takesGrab(r)
            THEN [mouseKeep EXCEPT !.eGrabbed = grabId(id),
                                   !.eActive = grabActive(id),
                                   !.gGrabbed = TRUE,
                                   !.gActive = TRUE,
                                   !.mGrabbing = TRUE,
                                   !.res = "GRAB"]
            ELSE [mouseKeep EXCEPT !.eActive = missedActive(id)]
  ELSE IF ~ownsGrab(id)
       THEN mouseKeep
       ELSE IF mLeftPressed
            THEN [mouseKeep EXCEPT !.gGrabbed = TRUE, !.res = heldAction(r)]
            ELSE [mouseKeep EXCEPT !.gGrabbed = TRUE,
                                   !.mReleasing = TRUE,
                                   !.res = releaseAction(r)]

CheckMouse(id, r) ==
  /\ inFrame
  /\ LET n == checkMouse(id, r)
         q == Qualified(group, id)
     IN /\ eGrabbed' = n.eGrabbed
        /\ eActive' = n.eActive
        /\ gGrabbed' = n.gGrabbed
        /\ gActive' = n.gActive
        /\ mGrabbing' = n.mGrabbing
        /\ mReleasing' = n.mReleasing
        /\ aRect' = IF n.eActive = <<>>
                    THEN R
                    ELSE IF n.eActive = q THEN r ELSE aRect
        /\ grabber' = IF n.eGrabbed # eGrabbed THEN q ELSE grabber
        /\ dragged' = IF n.res = "DRAG" THEN TRUE ELSE dragged
        /\ Record(Op("checkMouse",
                  [id |-> id, r |-> r, q |-> q, active |-> eActive],
                  n.res))
  /\ UNCHANGED hovered
  /\ UNCHANGED <<inFrame, mPos, mLeftPressed, mHovering, tBuffer, tChanged,
                 tAction, group, open, tFresh, released>>

\* ------------------------------------------------------------------------
\* State::checkText, State::isActive
\* ------------------------------------------------------------------------
\* Variant: the changed flag is not consulted.
checkTextStale(id) ==
  IF ~isSameGroupId(group, eActive, id) THEN "NONE" ELSE tAction

checkText(id) ==
  IF ~tChanged \/ ~isSameGroupId(group, eActive, id)
  THEN "NONE"
  ELSE tAction

isActive(id) == isSameGroupId(group, eActive, id)

\* State::wantsMouse
wantsMouse == mHovering \/ eGrabbed # <<>>

\* ------------------------------------------------------------------------
\* State::beginGroup, State::endGroup
\* ------------------------------------------------------------------------

\* Does the qualified id e continue, after a non-empty prefix of groupSize
\* characters, with separator + id + separator?  (nested branch)
nestedMiss(flag, e, groupSize, id) ==
  LET idSize == Len(id) IN
  \/ ~flag
  \/ Len(e) <= idSize + groupSize + 1
  \/ Substr(e, groupSize, idSize + 1) # id
  \/ At(e, groupSize + idSize + 1) # groupNameSeparator

\* Top-level branch.
rootMiss(e, id) ==
  LET idSize == Len(id) IN
  \/ Len(e) <= idSize
  \/ Substr(e, 0, idSize) # id
  \/ At(e, idSize) # groupNameSeparator

\* What beginGroup(id, r) leaves in the prefix and the two flags.
beginGroup(id) ==
  IF id = <<>>
  THEN UNCHANGED <<group, gGrabbed, gActive>>
  ELSE LET groupSize == Len(group) IN
       IF groupSize > 0
       THEN /\ gGrabbed' = IF nestedMiss(gGrabbed, eGrabbed, groupSize, id)
                           THEN FALSE ELSE gGrabbed
            /\ gActive' = IF nestedMiss(gActive, eActive, groupSize, id)
                          THEN FALSE ELSE gActive
            /\ group' = group \o <<groupNameSeparator>> \o id
       ELSE /\ gGrabbed' = ~rootMiss(eGrabbed, id)
            /\ gActive' = ~rootMiss(eActive, id)
            /\ group' = group \o id

\* State::beginGroup(id, r) in a frame, at any depth.
groupBegun(id, r) ==
  /\ inFrame
  /\ open' = Append(open, id)
  /\ beginGroup(id)
  /\ Record(Op("beginGroup", [id |-> id], "NONE"))
  /\ UNCHANGED hovered
  /\ UNCHANGED <<inFrame, mPos, mLeftPressed, eGrabbed, mHovering,
                 mGrabbing, mReleasing, eActive, tBuffer, tChanged, tAction,
                 tFresh, released, aRect, grabber, dragged>>

BeginGroup(id, r) == Len(open) < MaxDepth /\ groupBegun(id, r)

\* After truncating to the parent prefix g of nextSize characters: does the
\* qualified id e lie inside the parent?
parentHit(e, g, nextSize) ==
  /\ Len(e) > nextSize
  /\ Substr(e, 0, nextSize) = g
  /\ At(e, nextSize) = groupNameSeparator

\* Variant: the separator stays in the prefix.
nextSizeKeepsSeparator(id) == Len(group) - Len(id)

\* Length of the parent prefix of a nested group.
nextSizeOf(id) == Len(group) - Len(id) - 1

\* The assertions of endGroup(id, r) hold.
endGroupAsserts(id) ==
  IF id = <<>>
  THEN TRUE
  ELSE IF Len(id) >= Len(group)
       THEN group = id
       ELSE /\ At(group, nextSizeOf(id)) = groupNameSeparator
            /\ SubstrFrom(group, nextSizeOf(id) + 1) = id

\* What endGroup(id, r) leaves in the prefix, the flags and mHovering.
endGroup(id, r) ==
  IF id = <<>>
  THEN UNCHANGED <<group, gGrabbed, gActive, mHovering>>
  ELSE IF Len(id) >= Len(group)
       THEN /\ group' = <<>>
            /\ gActive' = FALSE
            /\ gGrabbed' = FALSE
            /\ mHovering' = IF ~mHovering /\ PointInRect(mPos, r)
                            THEN TRUE ELSE mHovering
       ELSE LET nextSize == nextSizeOf(id)
                g == SubSeq(group, 1, nextSize)
            IN /\ group' = g
               /\ gGrabbed' = IF ~gGrabbed /\ parentHit(eGrabbed, g, nextSize)
                              THEN TRUE ELSE gGrabbed
               /\ gActive' = IF ~gActive /\ parentHit(eActive, g, nextSize)
                             THEN TRUE ELSE gActive
               /\ UNCHANGED mHovering

\* Callers close the innermost open group (Group::end).
groupEnded(r) ==
  /\ inFrame
  /\ open # <<>>
  /\ LET id == open[Len(open)] IN
     /\ open' = SubSeq(open, 1, Len(open) - 1)
     /\ endGroupAsserts(id)
     /\ endGroup(id, r)
     /\ Record(Op("endGroup", [id |-> id], "NONE"))
  /\ UNCHANGED <<inFrame, mPos, mLeftPressed, eGrabbed, mGrabbing,
                 mReleasing, eActive, tBuffer, tChanged, tAction, tFresh,
                 released, aRect, grabber, dragged>>

EndGroup(r) ==
  /\ groupEnded(r)
  /\ UNCHANGED hovered

\* The same exit with the history of outermost exits kept.
HoverEndGroup(r) ==
  /\ groupEnded(r)
  /\ hovered' = (hovered \/ (Len(open) = 1 /\ PointInRect(mPos, r)))

\* ------------------------------------------------------------------------
\* buttonBase, button, toggleButton (button.hpp)
\* ------------------------------------------------------------------------

\* Variant: a release outside the rect counts as well.
buttonBaseOnRelease(action) == action \in {"ACTION", "CANCEL"}

\* return action == MouseAction::ACTION
buttonBase(action) == action = "ACTION"

\* A fast-path flag after the button's panel, a group with the button's
\* id, was entered and ended; e is the grabbed or active id.
panelFlag(flag, e, id) ==
  IF id = <<>>
  THEN flag
  ELSE IF group = <<>>
       THEN FALSE
       ELSE LET entered1 == IF nestedMiss(flag, e, Len(group), id)
                            THEN FALSE ELSE flag
            IN IF ~entered1 /\ parentHit(e, group, Len(group))
               THEN TRUE ELSE entered1

\* mHovering after the button's panel was ended.
panelHover(id, r) ==
  IF id # <<>> /\ group = <<>> /\ ~mHovering /\ PointInRect(mPos, r)
  THEN TRUE ELSE mHovering

\* button(target, id) / toggleButton(target, id, &value): the mouse query,
\* the panel drawn as a group with the same id and rect, the result.
Button(id, r) ==
  /\ inFrame
  /\ LET n == checkMouse(id, r)
         q == Qualified(group, id)
     IN /\ eGrabbed' = n.eGrabbed
        /\ eActive' = n.eActive
        /\ mGrabbing' = n.mGrabbing
        /\ mReleasing' = n.mReleasing
        /\ gGrabbed' = panelFlag(n.gGrabbed, n.eGrabbed, id)
        /\ gActive' = panelFlag(n.gActive, n.eActive, id)
        /\ mHovering' = panelHover(id, r)
        /\ aRect' = IF n.eActive = <<>>
                    THEN R
                    ELSE IF n.eActive = q THEN r ELSE aRect
        /\ grabber' = IF n.eGrabbed # eGrabbed THEN q ELSE grabber
        /\ dragged' = IF n.res = "DRAG" THEN TRUE ELSE dragged
        /\ Record(Op("button", [id |-> id, r |-> r],
                     [action |-> n.res, ret |-> buttonBase(n.res)]))
  /\ UNCHANGED <<inFrame, mPos, mLeftPressed, tBuffer, tChanged, tAction,
                 group, open, tFresh, released, hovered>>

\* A click is followed from the start of the run.
InitButton ==
  /\ StateInit
  /\ click = ClickArmed
  /\ TapInit
  /\ ContextInit
  /\ GroupInit
  /\ ListInit
  /\ ObjectInit

\* Mouse events between frames; every frame emits the button once.
NextButton ==
  \/ \E p \in Points, b \in Buttons : EventDown(p, b)
  \/ \E p \in Points : EventMotion(p)
  \/ \E p \in Points, b \in Buttons : EventUp(p, b)
  \/ BeginFrame
  \/ last.op = "beginFrame" /\ Button(Btn, R)
  \/ last.op = "button" /\ EndFrame

SpecButton == InitButton /\ [][NextButton]_vars

\* ------------------------------------------------------------------------
\* State::Context, State::lockFrame, State::render
\* ------------------------------------------------------------------------

\* What the Context operations never touch.
ctxFrozen == <<mPos, mLeftPressed, eActive, tBuffer, tAction, group,
               gGrabbed, gActive, open, tFresh, released, aRect, grabber,
               dragged, scen, hovered, click, queried, tap, grpVars, dlVars,
               objVars>>

\* The variables beginFrame and endFrame assign.
frameVars == <<inFrame, mHovering, tChanged, mGrabbing, eGrabbed,
               mReleasing>>

\* Values an uninitialised State* member can hold: null, the address of
\* the State, or an address that is no State.
Indeterminate == {"null", "this", "wild"}

\* Variant: the frame may be begun while one is open.
beginFrameAllowedAlways == TRUE

\* SDL_assert(inFrame == false)
beginFrameAllowed == inFrame = FALSE

\* SDL_assert(inFrame == true)
endFrameAllowed == inFrame = TRUE

\* Variant: render never checks the frame.
renderAllowedAlways == TRUE

\* SDL_assert(!inFrame)
renderAllowed == ~inFrame

\* beginFrame; a failed assertion stops the program.
beginFrame ==
  /\ begins' = begins + 1
  /\ IF beginFrameAllowed
     THEN /\ inFrame' = TRUE
          /\ mHovering' = FALSE
          /\ UNCHANGED failed
     ELSE /\ failed' = "beginFrame"
          /\ UNCHANGED <<inFrame, mHovering>>
  /\ UNCHANGED <<tChanged, mGrabbing, eGrabbed, mReleasing>>

\* endFrame; a failed assertion stops the program.
endFrame ==
  /\ ends' = ends + 1
  /\ IF endFrameAllowed
     THEN /\ inFrame' = FALSE
          /\ tChanged' = FALSE
          /\ mGrabbing' = FALSE
          /\ eGrabbed' = endFrameGrabbed
          /\ mReleasing' = FALSE
          /\ UNCHANGED failed
     ELSE /\ failed' = "endFrame"
          /\ UNCHANGED <<inFrame, tChanged, mGrabbing, eGrabbed, mReleasing>>
  /\ UNCHANGED mHovering

\* The body of unlockFrame for a Context whose state pointer is v:
\* nothing for null, endFrame through a pointer to the State, an invalid
\* access through any other address.
unlockFrame(v) ==
  CASE v = "this" -> endFrame
    [] v = "wild" -> /\ failed' = "wild"
                     /\ UNCHANGED <<ends, frameVars>>
    [] OTHER -> UNCHANGED <<ends, failed, frameVars>>

\* The pointer unlockFrame leaves in the object.
unlocked(v) == IF v = "wild" THEN "wild" ELSE "null"

\* Context c = state.lockFrame();
LockFrame(s) ==
  /\ failed = "no"
  /\ ctx[s] = "none"
  /\ begins < MaxFrames
  /\ ctx' = [ctx EXCEPT ![s] = "this"]
  /\ beginFrame
  /\ last' = Op("lockFrame", NoArg, "NONE")
  /\ UNCHANGED <<ends, ctxFrozen>>

\* c.unlockFrame();
UnlockFrame(s) ==
  /\ failed = "no"
  /\ ctx[s] # "none"
  /\ unlockFrame(ctx[s])
  /\ ctx' = [ctx EXCEPT ![s] = unlocked(ctx[s])]
  /\ last' = Op("unlockFrame", NoArg, "NONE")
  /\ UNCHANGED <<begins, ctxFrozen>>

\* c.~Context()
DestroyContext(s) ==
  /\ failed = "no"
  /\ ctx[s] # "none"
  /\ unlockFrame(ctx[s])
  /\ ctx' = [ctx EXCEPT ![s] = "none"]
  /\ last' = Op("~Context", NoArg, "NONE")
  /\ UNCHANGED <<begins, ctxFrozen>>

\* Context d(std::move(c)): d.state is not initialised before the swap,
\* so c is left with the indeterminate value g.
MoveContext(d, s, g) ==
  /\ failed = "no"
  /\ ctx[d] = "none"
  /\ ctx[s] # "none"
  /\ ctx' = [ctx EXCEPT ![d] = ctx[s], ![s] = g]
  /\ last' = Op("Context(Context&&)", NoArg, "NONE")
  /\ UNCHANGED <<begins, ends, failed, frameVars, ctxFrozen>>

\* d = std::move(c): the by-value parameter rhs is move-constructed from
\* c, swapped with d and destroyed holding what d held.
AssignContext(d, s, g) ==
  /\ failed = "no"
  /\ ctx[d] # "none"
  /\ ctx[s] # "none"
  /\ unlockFrame(IF d = s THEN g ELSE ctx[d])
  /\ ctx' = [ctx EXCEPT ![s] = g, ![d] = ctx[s]]
  /\ last' = Op("operator=", NoArg, "NONE")
  /\ UNCHANGED <<begins, ctxFrozen>>

\* state.render(renderer)
Render ==
  /\ failed = "no"
  /\ failed' = IF renderAllowed THEN "no" ELSE "render"
  /\ last' = Op("render", NoArg, "NONE")
  /\ UNCHANGED <<ctx, begins, ends, frameVars, ctxFrozen>>

NextContext ==
  \/ \E s \in Slots : LockFrame(s)
  \/ \E s \in Slots : UnlockFrame(s)
  \/ \E s \in Slots : DestroyContext(s)
  \/ \E d, s \in Slots, g \in Indeterminate : MoveContext(d, s, g)
  \/ \E d, s \in Slots, g \in Indeterminate : AssignContext(d, s, g)
  \/ Render

SpecContext == Init /\ [][NextContext]_vars

\* ------------------------------------------------------------------------
\* State::Context::pushGroup, State::Context::popGroup
\* ------------------------------------------------------------------------

\* What the group calls never touch.
grpFrozen == <<inFrame, mPos, mLeftPressed, eGrabbed, mGrabbing, mReleasing,
               eActive, tBuffer, tChanged, tAction, tFresh, released, aRect,
               grabber, dragged, scen, hovered, click, queried, tap, ctx,
               begins, ends, dlVars,
               objVars>>

\* The exit of id closes the innermost open group.
matches(id) == open # <<>> /\ open[Len(open)] = id

\* ctx.pushGroup(id, r)
PushGroup(id, r) ==
  /\ failed = "no"
  /\ inFrame
  /\ Len(open) < GroupDepth
  /\ beginGroup(id)
  /\ open' = Append(open, id)
  /\ saved' = Append(saved, group)
  /\ last' = Op("pushGroup", [id |-> id], "NONE")
  /\ UNCHANGED <<mHovering, failed, proper, grpFrozen>>

\* ctx.popGroup(id, r) with any id: a failed assertion stops the program.
PopGroup(id, r) ==
  /\ failed = "no"
  /\ inFrame
  /\ IF endGroupAsserts(id)
     THEN /\ endGroup(id, r)
          /\ UNCHANGED failed
     ELSE /\ failed' = "endGroup"
          /\ UNCHANGED <<group, gGrabbed, gActive, mHovering>>
  /\ open' = IF matches(id) THEN SubSeq(open, 1, Len(open) - 1) ELSE open
  /\ saved' = IF matches(id) THEN SubSeq(saved, 1, Len(saved) - 1) ELSE saved
  /\ proper' = (proper /\ matches(id))
  /\ last' = Op("popGroup", [id |-> id], "NONE")
  /\ UNCHANGED grpFrozen

\* A frame is locked, groups are pushed and popped, and the frame is
\* unlocked when the caller has closed its groups.
NextGroups ==
  \/ LockFrame(1)
  \/ open = <<>> /\ DestroyContext(1)
  \/ \E id \in NestIds, r \in Rects : PushGroup(id, r)
  \/ \E id \in NestIds, r \in Rects : PopGroup(id, r)

SpecGroups == Init /\ [][NextGroups]_vars

\* ------------------------------------------------------------------------
\* DisplayList
\* ------------------------------------------------------------------------

\* What the display list operations never touch.
listFrozen == <<stateVars, open, tFresh, released, aRect, grabber, dragged,
                scen, hovered, click, queried, tap, ctxVars, grpVars, objVars>>

\* SDL_HasIntersection: two non-empty rects overlap on both axes.
HasIntersection(A, B) ==
  /\ A.w > 0 /\ A.h > 0 /\ B.w > 0 /\ B.h > 0
  /\ Min(A.x + A.w, B.x + B.w) > (IF B.x > A.x THEN B.x ELSE A.x)
  /\ Min(A.y + A.h, B.y + B.h) > (IF B.y > A.y THEN B.y ELSE A.y)

\* SDL_IntersectRect(A, B, result): SDL rejects a null parameter and
\* returns SDL_FALSE before looking at the rects.
SDL_IntersectRect(A, B, result) ==
  IF result = "nullptr" THEN FALSE ELSE HasIntersection(A, B)

\* The predicate clip hands to std::remove_if.
clipRemoves(rect, item) == ~SDL_IntersectRect(rect, item.rect, "nullptr")

\* std::remove_if + erase over items[pos..]: the survivors keep their order.
clip(rect, pos) ==
  IF pos >= Len(items)
  THEN items
  ELSE SubSeq(items, 1, pos) \o
       SelectSeq(SubSeq(items, pos + 1, Len(items)),
                 LAMBDA item : ~clipRemoves(rect, item))

\* What render does for one item.
paint(item) ==
  IF item.content = 0
  THEN [call |-> "SDL_RenderFillRect", rect |-> item.rect]
  ELSE [call |-> "characterRGBA", x |-> item.rect.x, y |-> item.rect.y,
        ch |-> item.content]

\* Variant: render walks the list from begin to end.
renderOrderForward(n) == [i \in 1..n |-> i]

\* The order in which render visits the items: rbegin to rend.
renderOrder(n) == [i \in 1..n |-> n + 1 - i]

\* dList.insert(rect, color, ch)
ListInsert(rect, a, ch) ==
  /\ Len(items) < MaxItems
  /\ items' = IF a > 0
              THEN Append(items, [rect |-> rect, a |-> a, content |-> ch])
              ELSE items
  /\ painted' = <<>>
  /\ last' = Op("insert", [rect |-> rect, a |-> a, ch |-> ch], "NONE")
  /\ UNCHANGED listFrozen

\* dList.clip(rect, pos)
ListClip(rect, pos) ==
  /\ items' = clip(rect, pos)
  /\ painted' = <<>>
  /\ last' = Op("clip", [rect |-> rect, pos |-> pos], "NONE")
  /\ UNCHANGED listFrozen

\* dList.render(renderer)
ListRender ==
  /\ painted' = [i \in 1..Len(items) |->
                  paint(items[renderOrder(Len(items))[i]])]
  /\ last' = Op("render", NoArg, "NONE")
  /\ UNCHANGED <<items, listFrozen>>

\* dList.clear()
ListClear ==
  /\ items' = <<>>
  /\ painted' = <<>>
  /\ last' = Op("clear", NoArg, "NONE")
  /\ UNCHANGED listFrozen

NextList ==
  \/ \E rect \in ListRects, a \in Alphas, ch \in Contents :
        ListInsert(rect, a, ch)
  \/ \E rect \in ListRects, pos \in 0..MaxItems : ListClip(rect, pos)
  \/ ListRender
  \/ ListClear

SpecList == Init /\ [][NextList]_vars

\* ------------------------------------------------------------------------
\* Group (Group.hpp): construction, end(), destruction, moves
\* ------------------------------------------------------------------------

\* What the Group objects never touch.
objFrozen == <<stateVars, open, tFresh, released, aRect, grabber, dragged,
               scen, hovered, click, queried, tap, ctx, begins, ends,
               grpVars, dlVars>>

\* Variant: the moved-to object takes the ended flag of the source.
movedEndedCopied(rhs) == rhs.ended

\* The ended flag of a move-constructed Group: the member's default.
movedEnded(rhs) == FALSE

\* Group::end() on the object g: parent.unlock once the assertion holds.
end(g) ==
  IF g.ended
  THEN /\ failed' = "end"
       /\ UNCHANGED exits
  ELSE /\ exits' = [exits EXCEPT ![g.enter] = @ + 1]
       /\ UNCHANGED failed

\* Group g(parent, id, scroll, rect, layout): parent.lock
NewGroup(s) ==
  /\ failed = "no"
  /\ groups[s] = NoGroup
  /\ entered < MaxGroups
  /\ entered' = entered + 1
  /\ groups' = [groups EXCEPT ![s] = [enter |-> entered + 1, ended |-> FALSE]]
  /\ last' = Op("Group", NoArg, "NONE")
  /\ UNCHANGED <<exits, failed, objFrozen>>

\* g.end()
EndOfGroup(s) ==
  /\ failed = "no"
  /\ groups[s] # NoGroup
  /\ exits[groups[s].enter] < MaxExits
  /\ end(groups[s])
  /\ groups' = [groups EXCEPT ![s] = [@ EXCEPT !.ended = TRUE]]
  /\ last' = Op("end", NoArg, "NONE")
  /\ UNCHANGED <<entered, objFrozen>>

\* g.~Group(): end() unless ended
DestroyGroup(s) ==
  /\ failed = "no"
  /\ groups[s] # NoGroup
  /\ exits[groups[s].enter] < MaxExits
  /\ IF ~groups[s].ended
     THEN end(groups[s])
     ELSE UNCHANGED <<exits, failed>>
  /\ groups' = [groups EXCEPT ![s] = NoGroup]
  /\ last' = Op("~Group", NoArg, "NONE")
  /\ UNCHANGED <<entered, objFrozen>>

\* Group d(std::move(g))
MoveGroup(d, s) ==
  /\ failed = "no"
  /\ groups[d] = NoGroup
  /\ groups[s] # NoGroup
  /\ groups' = [groups EXCEPT
                  ![d] = [enter |-> groups[s].enter,
                          ended |-> movedEnded(groups[s])],
                  ![s] = [@ EXCEPT !.ended = TRUE]]
  /\ last' = Op("Group(Group&&)", NoArg, "NONE")
  /\ UNCHANGED <<entered, exits, failed, objFrozen>>

\* d = std::move(g): the defaulted operator copies every member, ended
\* included, and leaves g as it was.
AssignGroup(d, s) ==
  /\ failed = "no"
  /\ groups[d] # NoGroup
  /\ groups[s] # NoGroup
  /\ groups' = [groups EXCEPT ![d] = groups[s]]
  /\ last' = Op("operator=(Group&&)", NoArg, "NONE")
  /\ UNCHANGED <<entered, exits, failed, objFrozen>>

NextObjects ==
  \/ \E s \in GroupSlots : NewGroup(s)
  \/ \E s \in GroupSlots : EndOfGroup(s)
  \/ \E s \in GroupSlots : DestroyGroup(s)
  \/ \E d, s \in GroupSlots : MoveGroup(d, s)
  \/ \E d, s \in GroupSlots : AssignGroup(d, s)

SpecObjects == Init /\ [][NextObjects]_vars

\* ------------------------------------------------------------------------
\* Specification
\* ------------------------------------------------------------------------
Next ==
  \/ \E p \in Points, b \in Buttons : EventDown(p, b)
  \/ \E p \in Points : EventMotion(p)
  \/ \E p \in Points, b \in Buttons : EventUp(p, b)
  \/ \E t \in TextFrags : EventText(t)
  \/ \E k \in Keys : EventKey(k)
  \/ BeginFrame
  \/ EndFrame
  \/ \E id \in Ids, r \in Rects : CheckMouse(id, r)
  \/ \E id \in GroupIds, r \in Rects : BeginGroup(id, r)
  \/ \E r \in Rects : EndGroup(r)

Spec == Init /\ [][Next]_vars

\* Pointer, frames, widgets and groups, with the pointer positions found by
\* the exits of outermost groups recorded in hovered.
NextHover ==
  \/ \E p \in Points, b \in Buttons : EventDown(p, b)
  \/ \E p \in Points : EventMotion(p)
  \/ \E p \in Points, b \in Buttons : EventUp(p, b)
  \/ HoverBeginFrame
  \/ EndFrame
  \/ \E id \in Ids, r \in Rects : CheckMouse(id, r)
  \/ \E id \in GroupIds, r \in Rects : BeginGroup(id, r)
  \/ \E r \in Rects : HoverEndGroup(r)

SpecHover == Init /\ [][NextHover]_vars

\* A widget inside nested groups: a press, the frames that query the widget
\* at any nesting depth, and the release.
NextNested ==
  \/ EventDown(PIn, "LEFT")
  \/ EventUp(PIn, "LEFT")
  \/ BeginFrame
  \/ EndFrame
  \/ CheckMouse(Btn, R)
  \/ \E id \in WidgetGroups :
       Len(open) < NestDepth /\ groupBegun(id, R)
  \/ EndGroup(R)

SpecNested == Init /\ [][NextNested]_vars

\* Presses and releases are followed from the start of the run.
InitTap ==
  /\ StateInit
  /\ ClickInit
  /\ tap = TapArmed
  /\ ContextInit
  /\ GroupInit
  /\ ListInit
  /\ ObjectInit

\* Pointer, frames, widgets and groups, with the presses released before
\* any frame began recorded in tap.
NextTap ==
  \/ \E p \in Points, b \in Buttons : EventDown(p, b)
  \/ \E p \in Points : EventMotion(p)
  \/ \E p \in Points, b \in Buttons : EventUp(p, b)
  \/ BeginFrame
  \/ EndFrame
  \/ \E id \in Ids, r \in Rects : CheckMouse(id, r)
  \/ \E id \in GroupIds, r \in Rects : BeginGroup(id, r)
  \/ \E r \in Rects : EndGroup(r)

SpecTap == InitTap /\ [][NextTap]_vars

\* A widget is made active by a click and text is typed into it.
NextText ==
  \/ EventDown(PIn, "LEFT")
  \/ EventUp(PIn, "LEFT")
  \/ BeginFrame
  \/ EndFrame
  \/ CheckMouse(Btn, R)
  \/ \E t \in RichFrags : EventText(t)
  \/ \E k \in Keys : EventKey(k)

SpecText == Init /\ [][NextText]_vars


\* ------------------------------------------------------------------------
\* Properties
\* ------------------------------------------------------------------------

\* The step is a call of checkMouse; last' holds its arguments and result.
MouseStep == last'.op = "checkMouse"

ReleasedResults == {"ACTION", "CANCEL"}

\* C1: a checkMouse call returns a result other than NONE only if its
\* qualified id is the grabbed id at the time of the call, or nothing is
\* grabbed, the button is pressed and rect contains the pointer (the GRAB);
\* while a different qualified id is grabbed the result is NONE.
C1_OnlyGrabbedGetsMouse ==
  [][MouseStep =>
       /\ last'.res # "NONE" =>
            \/ last'.arg.q = eGrabbed
            \/ /\ eGrabbed = <<>>
               /\ mLeftPressed
               /\ PointInRect(mPos, last'.arg.r)
               /\ last'.res = "GRAB"
       /\ (eGrabbed # <<>> /\ eGrabbed # last'.arg.q) => last'.res = "NONE"
    ]_vars

\* A widget whose rect holds the pointer was refused while another element
\* held the grab with the button down.
C1_Witness ==
  /\ last.op = "checkMouse"
  /\ last.res = "NONE"
  /\ eGrabbed # <<>>
  /\ eGrabbed # last.arg.q
  /\ mLeftPressed
  /\ PointInRect(mPos, last.arg.r)

\* C2: with the button pressed and nothing grabbed, the first widget queried
\* whose rect contains the pointer gets GRAB and becomes grabbed and active;
\* every other widget queried later in that frame gets NONE and changes
\* neither id, so at most one widget transitions to GRAB per frame.
C2_OneGrabPerFrame ==
  [][MouseStep =>
       /\ (eGrabbed = <<>> /\ mLeftPressed
             /\ PointInRect(mPos, last'.arg.r)) =>
            /\ grabber = <<>>
            /\ last'.res = "GRAB"
            /\ eGrabbed' = last'.arg.q
            /\ eActive' = last'.arg.q
       /\ (grabber # <<>> /\ last'.arg.q # grabber) =>
            /\ last'.res = "NONE"
            /\ eGrabbed' = eGrabbed
            /\ eActive' = eActive
       /\ eGrabbed' # eGrabbed => (grabber = <<>> /\ last'.res = "GRAB")
    ]_vars

\* After a GRAB in this frame a second widget, whose rect also holds the
\* pointer, was queried.
C2_Witness ==
  /\ last.op = "checkMouse"
  /\ grabber # <<>>
  /\ last.arg.q # grabber
  /\ mLeftPressed
  /\ PointInRect(mPos, last.arg.r)
  /\ PointInRect(mPos, aRect)

\* C3: the query that returns ACTION or CANCEL leaves the grabbed id in
\* place: the same query repeated returns the same result and other widgets
\* still get NONE; the id is emptied only by endFrame, in the frame of the
\* release, and in the next frame with the button up the widget gets NONE.
C3_TwoPhaseRelease ==
  [][/\ (MouseStep /\ last'.res \in ReleasedResults) =>
          /\ eGrabbed' = eGrabbed
          /\ eGrabbed = last'.arg.q
          /\ mReleasing'
     /\ (MouseStep /\ last.op = "checkMouse" /\ last.res \in ReleasedResults
           /\ last'.arg = last.arg) => last'.res = last.res
     /\ (MouseStep /\ mReleasing /\ last'.arg.q # eGrabbed) =>
          last'.res = "NONE"
     /\ (eGrabbed # <<>> /\ eGrabbed' = <<>>) =>
          (last'.op = "endFrame" /\ mReleasing)
     /\ (last'.op = "endFrame" /\ mReleasing) =>
          (eGrabbed' = <<>> /\ released' = eGrabbed /\ ~mReleasing')
     /\ (MouseStep /\ released # <<>> /\ last'.arg.q = released
           /\ ~mLeftPressed) => last'.res = "NONE"
    ]_vars

\* The released widget was queried again in the frame after its release.
C3_Witness ==
  /\ last.op = "checkMouse"
  /\ released # <<>>
  /\ last.arg.q = released
  /\ ~mLeftPressed
  /\ eGrabbed = <<>>

\* C4: for the grabbed widget with the button pressed the result is GRAB in
\* the frame the grab began, else HOLD if rect contains the pointer and DRAG
\* if not; the grabbed and active ids are not changed.
C4_HeldResult ==
  [][(MouseStep /\ eGrabbed # <<>> /\ last'.arg.q = eGrabbed
        /\ mLeftPressed) =>
       /\ last'.res = IF grabber = eGrabbed
                      THEN "GRAB"
                      ELSE IF PointInRect(mPos, last'.arg.r)
                           THEN "HOLD"
                           ELSE "DRAG"
       /\ eGrabbed' = eGrabbed
       /\ eActive' = eActive
    ]_vars

\* HOLD reported again after the grab had been reported as DRAG.
C4_Witness ==
  /\ last.op = "checkMouse"
  /\ last.res = "HOLD"
  /\ dragged
  /\ last.arg.q = eGrabbed

\* C5: for the grabbed widget with the button not pressed the result is
\* ACTION if rect contains the pointer and CANCEL otherwise, and the
\* releasing flag is set.
C5_ReleaseResult ==
  [][(MouseStep /\ eGrabbed # <<>> /\ last'.arg.q = eGrabbed
        /\ ~mLeftPressed) =>
       /\ last'.res = IF PointInRect(mPos, last'.arg.r)
                      THEN "ACTION"
                      ELSE "CANCEL"
       /\ mReleasing'
    ]_vars

\* A release outside the rect was reported.
C5_Witness ==
  /\ last.op = "checkMouse"
  /\ last.res = "CANCEL"
  /\ mReleasing
  /\ last.arg.q = eGrabbed


\* C6: press inside R, frame: GRAB; motion to (5,5) with the button down,
\* frame: DRAG; button up at (5,5), frame: CANCEL; one more frame: NONE
\* ("btn" with rect R queried once per frame, starting from construction).
C6_PressDragCancel ==
  /\ scen = 3 => last.res = "GRAB"
  /\ scen = 7 => last.res = "DRAG"
  /\ scen = 11 => last.res = "CANCEL"
  /\ scen = 14 => last.res = "NONE"

\* The whole scenario was played.
C6_Witness == scen = 14 /\ last.op = "checkMouse" /\ mPos = POut

\* The rect of the active widget at this step: the one passed if the step
\* queries it, else the one of its latest query.
ActiveRect ==
  IF MouseStep /\ last'.arg.q = eActive THEN last'.arg.r ELSE aRect

C8_IdleQueryDeactivates ==
  [][(MouseStep /\ eGrabbed = <<>> /\ ~mLeftPressed) =>
       /\ last'.res = "NONE"
       /\ eActive = last'.arg.q => eActive' = <<>>
    ]_vars

\* C8 (amended): a query with nothing grabbed and the button up returns
\* NONE and leaves the active id unchanged, also when it is the id queried.
C8_IdleQueryKeepsActive ==
  [][(MouseStep /\ eGrabbed = <<>> /\ ~mLeftPressed) =>
       /\ last'.res = "NONE"
       /\ eActive' = eActive
       /\ eGrabbed' = <<>>
    ]_vars

\* The active widget was queried with nothing grabbed and the button up.
C8_Witness ==
  /\ last.op = "checkMouse"
  /\ last.arg.active = last.arg.q
  /\ eActive = last.arg.q
  /\ eGrabbed = <<>>
  /\ ~mLeftPressed

\* C9 as stated: motion while an element is grabbed and the button is held
\* leaves the position unchanged; other motion events, and every button
\* down and button up event, set it.
C9_MotionFrozenWhileGrabbed ==
  [][/\ last'.op = "motion" =>
          mPos' = IF eGrabbed # <<>> /\ mLeftPressed
                  THEN mPos
                  ELSE last'.arg.p
     /\ last'.op \in {"down", "up"} => mPos' = last'.arg.p
    ]_vars

\* C9 (amended): motion while nothing is grabbed and the button is held
\* leaves the position unchanged; other motion events (also those fed while
\* an element is grabbed), and every button down and button up event, set it.
C9_MotionFrozenWhilePressedFree ==
  [][/\ last'.op = "motion" =>
          mPos' = IF eGrabbed = <<>> /\ mLeftPressed
                  THEN mPos
                  ELSE last'.arg.p
     /\ last'.op \in {"down", "up"} => mPos' = last'.arg.p
    ]_vars

\* A motion event fed while an element was grabbed and the button held
\* moved the pointer.
C9_Witness ==
  /\ last.op = "motion"
  /\ eGrabbed # <<>>
  /\ mLeftPressed
  /\ mPos = last.arg.p
  /\ ~PointInRect(mPos, aRect)

TextActions == {"INPUT", "BACKSPACE"}

\* C10: checkText(id) returns the buffered action, INPUT or BACKSPACE, iff
\* an event set the changed flag since the last frame end and the qualified
\* id equals the active id, and NONE otherwise; at most one id is reported.
C10_TextOnlyToActive ==
  /\ \A id \in Ids :
       checkText(id) = IF tFresh /\ Qualified(group, id) = eActive
                       THEN tAction
                       ELSE "NONE"
  /\ tFresh => tAction \in TextActions
  /\ Cardinality({id \in Ids : checkText(id) # "NONE"}) <= 1

\* Inside a frame, in a group, the active element is offered text input.
C10_Witness ==
  /\ inFrame
  /\ group # <<>>
  /\ \E id \in Ids : checkText(id) = "INPUT"


\* ------------------------------------------------------------------------
\* Frames and Context objects (SpecContext)
\* ------------------------------------------------------------------------

NoContext == \A s \in Slots : ctx[s] = "none"

\* C11: every frame opened by lockFrame is ended exactly once, whatever
\* unlockFrame calls, moves, move-assignments and destructions follow:
\* endFrame is never called more often than beginFrame, never through an
\* invalid pointer, and as often as beginFrame once every Context is gone.
C11_FrameEndedExactlyOnce ==
  /\ ends <= begins
  /\ failed \notin {"endFrame", "wild"}
  /\ (NoContext /\ failed = "no") => ends = begins

\* C12: beginFrame while a frame is open and render while a frame is open
\* stop the program, render outside a frame succeeds, nothing runs after a
\* failure, and inFrame is true exactly when a begun frame is not yet ended.
C12_FrameAsserts ==
  /\ [](failed = "no" => (inFrame <=> begins = ends + 1))
  /\ [][/\ failed = "no"
        /\ (last'.op = "lockFrame" /\ inFrame) =>
             (failed' = "beginFrame" /\ inFrame')
        /\ (last'.op = "lockFrame" /\ ~inFrame) =>
             (failed' = "no" /\ inFrame')
        /\ (last'.op = "render" /\ inFrame) => failed' = "render"
        /\ (last'.op = "render" /\ ~inFrame) => failed' = "no"]_vars

\* Both assertions have stopped a run: this one is the render inside a
\* frame.
C12_Witness == failed = "render" /\ inFrame /\ begins = 1 /\ ends = 0


\* ------------------------------------------------------------------------
\* Group prefix (SpecGroups)
\* ------------------------------------------------------------------------

\* C13: in a properly nested sequence of enters and exits, for any ids
\* (the empty one included) and at any depth, the exit that matches an
\* enter restores the prefix that enter found, and the prefix is empty
\* when no group is open.
C13_PrefixRoundTrip ==
  /\ [](proper /\ open = <<>> => group = <<>>)
  /\ [][(last'.op = "popGroup" /\ proper') =>
          (failed' = "no" /\ group' = saved[Len(saved)])]_vars

\* Two nested named groups inside an empty-id group were closed in turn.
C13_Witness ==
  /\ proper
  /\ last.op = "popGroup"
  /\ last.arg.id = <<"q">>
  /\ open = <<<<>>, <<"p">>>>
  /\ group = <<"p">>

\* C14: an exit that does not match the innermost open group (another id,
\* or no group open) fails an assertion and leaves the prefix alone.
C14_MismatchedExitAsserts ==
  [][(last'.op = "popGroup" /\ proper /\ ~proper') =>
      (failed' = "endGroup" /\ group' = group)]_vars


\* ------------------------------------------------------------------------
\* Display list (SpecList)
\* ------------------------------------------------------------------------

\* C15: clip(rect, mark) leaves the commands before mark untouched, keeps
\* exactly the commands at or after mark whose rect intersects rect, in
\* their order and unchanged, and changes nothing when mark is at or
\* beyond the length of the list.
C15_ClipKeepsIntersecting ==
  [][last'.op = "clip" =>
      LET rect == last'.arg.rect
          pos == last'.arg.pos
      IN IF pos >= Len(items)
         THEN items' = items
         ELSE items' = SubSeq(items, 1, pos) \o
                SelectSeq(SubSeq(items, pos + 1, Len(items)),
                          LAMBDA item : HasIntersection(rect, item.rect))]_vars

\* C16: render paints every command once, the last emitted first, and
\* leaves the list as it was.
C16_RenderReverseOrder ==
  [][last'.op = "render" =>
      /\ items' = items
      /\ Len(painted') = Len(items)
      /\ \A i \in 1..Len(items) :
           painted'[i] = paint(items[Len(items) + 1 - i])]_vars

\* Three different commands were painted, a filled rect among them.
C16_Witness ==
  /\ last.op = "render"
  /\ Len(painted) = 3
  /\ painted[1] # painted[2]
  /\ painted[2] # painted[3]
  /\ painted[1] # painted[3]
  /\ painted[3].call = "SDL_RenderFillRect"


\* ------------------------------------------------------------------------
\* Hovering and the group flags (Spec)
\* ------------------------------------------------------------------------

\* C17: after a frame wantsMouse is true iff an element is grabbed or the
\* pointer lay inside the rect passed to the exit of an outermost group
\* closed during the frame; beginFrame resets the hovering flag and the
\* exit of a nested group never sets it.
C17_WantsMouseTopLevel ==
  [][/\ last'.op = "endFrame" =>
          (wantsMouse' <=> (eGrabbed' # <<>> \/ hovered))
     /\ last'.op = "beginFrame" => ~mHovering'
     /\ (last'.op = "endGroup" /\ Len(open) > 1) =>
          mHovering' = mHovering]_vars

\* The qualified id e lies in the current group: the prefix, the separator
\* and further characters.
inGroup(e) ==
  /\ Len(e) > Len(group) + 1
  /\ SubSeq(e, 1, Len(group)) = group
  /\ e[Len(group) + 1] = groupNameSeparator

\* C20: while a group is open in a frame, each fast-path flag is true iff
\* the grabbed (active) id is the current prefix followed by the separator
\* and further characters.  Stated for the frames' points where the open
\* groups give a non-empty prefix.
C20_FlagsAgreeWithSlowPath ==
  (inFrame /\ open # <<>> /\ group # <<>>) =>
    /\ gGrabbed <=> inGroup(eGrabbed)
    /\ gActive <=> inGroup(eActive)


\* ------------------------------------------------------------------------
\* Group objects (SpecObjects)
\* ------------------------------------------------------------------------

\* C19: whatever end() calls, destructions, move constructions and move
\* assignments follow a Group's construction, the group it entered is
\* exited at most once, and exactly once when no Group object is left.
C19_OneExitPerEnter ==
  /\ \A n \in 1..entered : exits[n] <= 1
  /\ (failed = "no" /\ \A s \in GroupSlots : groups[s] = NoGroup) =>
       \A n \in 1..entered : exits[n] = 1


\* ------------------------------------------------------------------------
\* Buttons (SpecButton)
\* ------------------------------------------------------------------------

\* The step is a button call and returns true exactly for ACTION.
ButtonReturnsAction ==
  last'.op = "button" => (last'.res.ret <=> last'.res.action = "ACTION")

continues(e, g, id) ==
  /\ Len(e) >= Len(g) + Len(id) + 2
  /\ SubSeq(e, Len(g) + 1, Len(g) + Len(id) + 2)
       = <<groupNameSeparator>> \o id \o <<groupNameSeparator>>

\* C21: entering a nested group (non-empty prefix) with id S leaves
\* groupHasGrabbed true iff it was true before and the grabbed id continues,
\* after the parent prefix, with separator + S + separator; the same for
\* groupHasActive and the active id.
C21_NestedEnterKeepsFlags ==
  [][(last'.op = "beginGroup" /\ group # <<>> /\ last'.arg.id # <<>>)
       => /\ gGrabbed' = (gGrabbed /\ continues(eGrabbed, group, last'.arg.id))
          /\ gActive' = (gActive /\ continues(eActive, group, last'.arg.id))
    ]_vars

\* The fragment up to its terminating zero.
RECURSIVE UpToZero(_)
UpToZero(text) ==
  IF text = <<>> \/ Head(text) = 0
  THEN <<>>
  ELSE <<Head(text)>> \o UpToZero(Tail(text))

IsContinuation(c) == c >= 128 /\ c < 192

\* Continuation bytes dropped, other bytes with the high bit set replaced
\* by the placeholder, the rest kept in order.
Placeholders(text) ==
  LET kept == SelectSeq(UpToZero(text), LAMBDA c : ~IsContinuation(c)) IN
  [i \in 1..Len(kept) |-> IF kept[i] >= 128 THEN 15 ELSE kept[i]]

\* C22: a text fragment fed while an element is active leaves in the buffer
\* the fragment up to its zero with continuation bytes dropped and the other
\* high-bit bytes replaced by 0x0f, never longer than the fragment, and sets
\* the changed flag with action INPUT.
C22_TextDecoded ==
  [][(last'.op = "text" /\ eActive # <<>>)
       => /\ tBuffer' = Placeholders(last'.arg.text)
          /\ Len(tBuffer') <= Len(UpToZero(last'.arg.text))
          /\ tChanged'
          /\ tAction' = "INPUT"]_vars

C22_Witness ==
  /\ last.op = "text"
  /\ last.arg.text = <<65, 195, 169, 66>>
  /\ eActive # <<>>
  /\ tBuffer = <<65, 15, 66>>

\* C23: whenever the grabbed id is non-empty the active id equals it, and
\* no step taken while something is grabbed changes the active id.
C23_ActiveIsGrabbed ==
  /\ [](eGrabbed # <<>> => eActive = eGrabbed)
  /\ [][eGrabbed # <<>> => eActive' = eActive]_vars

C23_Witness ==
  /\ last.op = "checkMouse"
  /\ last.res = "GRAB"
  /\ last.arg.active # <<>>
  /\ last.arg.active # eGrabbed
  /\ eActive = eGrabbed

\* C24: endFrame empties the grabbed id iff checkMouse was called in that
\* frame for the grabbed element with the button not pressed, and otherwise
\* leaves it unchanged; while the grab lasts every other widget gets NONE.
C24_EndFrameClearsQueriedGrab ==
  [][/\ last'.op = "endFrame" =>
          eGrabbed' = IF queried THEN <<>> ELSE eGrabbed
     /\ (last'.op = "endFrame" /\ eGrabbed # <<>>) =>
          (eGrabbed' = <<>> <=> queried)
     /\ (MouseStep /\ eGrabbed # <<>> /\ last'.arg.q # eGrabbed) =>
          last'.res = "NONE"]_vars

\* A frame with the button up that did not query the grabbed element has
\* ended and the grab is still there.
C24_Witness ==
  /\ last.op = "endFrame"
  /\ eGrabbed # <<>>
  /\ ~mLeftPressed

\* The frame that follows a press and its release fed with no frame begun
\* between them is open.
AfterTap == tap = "frame"

\* C25: after a left-button press and its release fed between two
\* consecutive frames, every checkMouse of the following frame returns NONE
\* and leaves the grabbed and active ids unchanged.
C25_TapNotObserved ==
  [][(MouseStep /\ AfterTap)
       => /\ last'.res = "NONE"
          /\ eGrabbed' = eGrabbed
          /\ eActive' = eActive]_vars

\* C25 amended: the same, when nothing is grabbed; a grabbed element still
\* gets the ACTION or CANCEL of the release that preceded the press.
C25_TapNotObservedWhenFree ==
  [][(MouseStep /\ AfterTap)
       => IF eGrabbed = <<>>
          THEN /\ last'.res = "NONE"
               /\ eGrabbed' = eGrabbed
               /\ eActive' = eActive
          ELSE /\ last'.res \in
                    IF last'.arg.q = eGrabbed THEN ReleasedResults ELSE {"NONE"}
               /\ eGrabbed' = eGrabbed
               /\ eActive' = eActive]_vars

\* A widget whose rect holds the position of the press and of the release
\* was queried in the following frame, with another element active.
C25_Witness ==
  /\ AfterTap
  /\ last.op = "checkMouse"
  /\ PointInRect(mPos, last.arg.r)
  /\ eGrabbed = <<>>
  /\ eActive # <<>>
  /\ last.res = "NONE"

\* The step is a button event of a button other than the left one.
OtherButtonStep ==
  /\ last'.op \in {"down", "up"}
  /\ last'.arg.button # "LEFT"

\* C26: the pressed flag becomes true only on a left-button down event and
\* false only on a left-button up event; events of any other button never
\* change it, so they neither start nor end a grab.
C26_PressedFollowsLeftButton ==
  [][/\ (~mLeftPressed /\ mLeftPressed') =>
          (last'.op = "down" /\ last'.arg.button = "LEFT")
     /\ (mLeftPressed /\ ~mLeftPressed') =>
          (last'.op = "up" /\ last'.arg.button = "LEFT")
     /\ OtherButtonStep => mLeftPressed' = mLeftPressed]_vars

\* The left button is held, nothing is grabbed and the stored pointer
\* position is outside every widget's rect.
HeldOutside ==
  /\ mLeftPressed
  /\ eGrabbed = <<>>
  /\ \A r \in Rects : ~PointInRect(mPos, r)

\* The step is a press or a release of the left button.
LeftButtonStep ==
  /\ last'.op \in {"down", "up"}
  /\ last'.arg.button = "LEFT"

\* C27: while the button is held and nothing is grabbed, motion events do
\* not change the stored position, and a press that landed outside every
\* widget's rect stays outside: until the left button is released or pressed
\* again every widget gets NONE and nothing is grabbed.
C27_HeldOutsideNeverGrabs ==
  [][/\ (last'.op = "motion" /\ mLeftPressed /\ eGrabbed = <<>>) =>
          mPos' = mPos
     /\ (HeldOutside /\ MouseStep) =>
          (last'.res = "NONE" /\ eGrabbed' = <<>>)
     /\ (HeldOutside /\ ~LeftButtonStep /\ mLeftPressed') =>
          HeldOutside']_vars

\* The step is a text-input event fed while no element is active.
IgnoredTextStep == last'.op = "text" /\ eActive = <<>>

BackspaceStep == last'.op = "key" /\ last'.arg.sym = "BACKSPACE"

\* C28: a text-input event fed while no element is active changes neither
\* the buffer nor the changed flag nor the action kind, so the buffer only
\* ever changes by text fed to an active element and the flag is only raised
\* by such text or by a backspace; a backspace key event sets the changed
\* flag and BACKSPACE whether or not an element is active and leaves the
\* buffer alone.
C28_TextIgnoredWhenInactive ==
  [][/\ IgnoredTextStep => UNCHANGED <<tBuffer, tChanged, tAction>>
     /\ tBuffer' # tBuffer => (last'.op = "text" /\ eActive # <<>>)
     /\ (~tChanged /\ tChanged') =>
          ((last'.op = "text" /\ eActive # <<>>) \/ BackspaceStep)
     /\ BackspaceStep =>
          (tChanged' /\ tAction' = "BACKSPACE" /\ tBuffer' = tBuffer)]_vars

\* Text was fed with no element active and dropped.
C28_Witness ==
  /\ last.op = "text"
  /\ eActive = <<>>
  /\ tBuffer # decodeText(last.arg.text, 0, <<>>)
  /\ ~tChanged
  /\ tAction # "INPUT"

====
